---- MODULE Spec2Model ----
(***************************************************************************)
(* Lucky imaging (src/apdsim/lisim.py): tip/tilt injection, per-frame      *)
(* registration (peak pixel, centroid, cross-correlation), serial and      *)
(* thread-pool execution, frame selection, stacking and alignment error.   *)
(*                                                                         *)
(* Conventions.  Python's 0-based arrays are 1-based sequences here, so    *)
(* Python entry k is element k+1; pixel coordinates stay 0-based.  None is *)
(* the empty sequence <<>> and a present optional value x is <<x>>; the    *)
(* frame count N = None is 0 (the source tests it with "if N"/"not N",     *)
(* which treats 0 and None alike).  A real number is an exact fraction     *)
(* <<num, den>> in lowest terms with den > 0; <<0, 0>> is NaN; a square    *)
(* root is the pair <<q, r>> for q * sqrt(r), r square-free.  A shifted    *)
(* frame is the pair (source frame, displacement handed to scipy's shift); *)
(* a stacked image is the reference, the shifted frames summed and the     *)
(* divisor.  shift_xcorr is modelled in its integer-argmax branch          *)
(* (subPixelShift false); the least-squares Gaussian fit is not modelled.  *)
(* The source is Python 2 with the NumPy of its time: array == None is     *)
(* False, and a float slice bound is accepted.                             *)
(***************************************************************************)
EXTENDS Integers, Sequences, FiniteSets, TLC

\* ---------------------------------------------------------------- bounds
MaxFrames == 3      \* longest input sequence
MaxSide == 4        \* largest frame height / width
PoolSize == 2       \* worker threads of the ThreadPool

Sides == 3..MaxSide

\* ------------------------------------------------------------- fractions
NaN == <<0, 0>>

RECURSIVE GCD(_, _)
GCD(a, b) == IF b = 0 THEN a ELSE GCD(b, a % b)

Abs(x) == IF x < 0 THEN -x ELSE x

\* the fraction n/d in lowest terms; x/0 is NaN (only 0/0 occurs)
Frac(n, d) ==
    IF d = 0 THEN NaN
    ELSE LET s == IF d < 0 THEN -1 ELSE 1
             g == GCD(Abs(n), Abs(d))
         IN  <<(s * n) \div g, (s * d) \div g>>

IsNaN(x) == x[2] = 0
RInt(n) == <<n, 1>>
RNeg(x) == IF IsNaN(x) THEN NaN ELSE <<-x[1], x[2]>>
RSub(x, y) == IF IsNaN(x) \/ IsNaN(y) THEN NaN
              ELSE Frac(x[1] * y[2] - y[1] * x[2], x[2] * y[2])
RAdd(x, y) == IF IsNaN(x) \/ IsNaN(y) THEN NaN
              ELSE Frac(x[1] * y[2] + y[1] * x[2], x[2] * y[2])
RMul(x, y) == IF IsNaN(x) \/ IsNaN(y) THEN NaN
              ELSE Frac(x[1] * y[1], x[2] * y[2])
\* x > y; every comparison with NaN is false
RGt(x, y) == ~IsNaN(x) /\ ~IsNaN(y) /\ x[1] * y[2] > y[1] * x[2]

VInt(v) == <<RInt(v[1]), RInt(v[2])>>
VNeg(v) == <<RNeg(v[1]), RNeg(v[2])>>
VSub(u, v) == <<RSub(u[1], v[1]), RSub(u[2], v[2])>>

\* ---------------------------------------------------------------- frames
Pos(h, w) == (0..(h - 1)) \X (0..(w - 1))

\* a single point source of brightness b at pixel p
PointSource(h, w, p, b) == [q \in Pos(h, w) |-> IF q = p THEN b ELSE 0]

ZeroFrame(h, w) == [q \in Pos(h, w) |-> 0]

\* row-major flattening: flat index i is pixel (i div w, i mod w)
Unravel(i, w) == <<i \div w, i % w>>

RECURSIVE SumTo(_, _)
\* f[0] + ... + f[n-1]
SumTo(f, n) == IF n = 0 THEN 0 ELSE f[n - 1] + SumTo(f, n - 1)

RECURSIVE Grid(_, _, _)
\* the array with pixels f[0..n-1] (flat indices), each computed once
Grid(f, w, n) ==
    IF n = 0 THEN <<>>
    ELSE (Unravel(n - 1, w) :> f[n - 1]) @@ Grid(f, w, n - 1)

Min(a, b) == IF a <= b THEN a ELSE b

RECURSIVE ArgMaxFrom(_, _, _, _, _)
\* scan of the flat indices i..n-1; a later pixel wins only if strictly larger
ArgMaxFrom(img, w, n, i, best) ==
    IF i = n THEN best
    ELSE IF img[Unravel(i, w)] > img[Unravel(best, w)]
         THEN ArgMaxFrom(img, w, n, i + 1, i)
         ELSE ArgMaxFrom(img, w, n, i + 1, best)

\* numpy.argmax + unravel_index: the first maximum in row-major order
ArgMax(img, h, w) == Unravel(ArgMaxFrom(img, w, h * w, 1, 0), w)

\* max(sub_image.flatten())
MaxVal(img, h, w) == img[ArgMax(img, h, w)]

\* scipy.ndimage shift by a whole number of pixels: the content moves by v,
\* pixels that come from outside the frame are 0 (mode 'constant', cval 0)
Translate(img, h, w, v) ==
    [q \in Pos(h, w) |->
        LET s == <<q[1] - v[1], q[2] - v[2]>>
        IN  IF s \in Pos(h, w) THEN img[s] ELSE 0]

\* shift(image, by): the frame paired with the displacement applied to it
Shift(image, by) == [src |-> image, by |-> by]

\* rotateAndCrop(image, cropArg = (left, upper, right, lower)) at angle 0:
\* rows upper..lower-1 and columns left..right-1
CropShape(bid) == <<bid[4] - bid[2], bid[3] - bid[1]>>
rotateAndCrop(img, bid) ==
    [q \in Pos(CropShape(bid)[1], CropShape(bid)[2]) |->
        img[<<q[1] + bid[2], q[2] + bid[1]>>]]

\* ------------------------------------------------------- registration
\* what one call of the per-frame shift function gives: an exception name
\* (or ""), the shifted frame, the shift returned and the peak value
Raised(e) == [exc |-> e, image_shifted |-> Shift(<<>>, <<>>), shift |-> <<>>,
              peak |-> 0]
Result(s, v, p) == [exc |-> "", image_shifted |-> s, shift |-> v, peak |-> p]

\* variant: the displacement is returned with the sign it was applied with
shift_pp_same_sign(image, h, w, img_ref_peak_idx, bid_area) ==
    IF bid_area # <<>>
    THEN Raised("NameError")
    ELSE LET img_peak_idx == VInt(ArgMax(image, h, w))
             rel_shift_idx == VSub(img_ref_peak_idx, img_peak_idx)
         IN  Result(Shift(image, rel_shift_idx), rel_shift_idx,
                    MaxVal(image, h, w))

shift_pp(image, h, w, img_ref_peak_idx, bid_area) ==
    IF bid_area # <<>>
    THEN Raised("NameError")     \* line 329 reads the unbound name 'images'
    ELSE LET img_peak_idx == VInt(ArgMax(image, h, w))
             rel_shift_idx == VSub(img_ref_peak_idx, img_peak_idx)
         IN  Result(Shift(image, rel_shift_idx), VNeg(rel_shift_idx),
                    MaxVal(image, h, w))

\* intensity-weighted first moments (row, column); 0/0 is NaN
centroid(image, h, w) ==
    LET n == h * w
        M_10 == SumTo([i \in 0..(n - 1) |-> (i % w) * image[Unravel(i, w)]], n)
        M_01 == SumTo([i \in 0..(n - 1) |-> (i \div w) * image[Unravel(i, w)]], n)
        M_00 == SumTo([i \in 0..(n - 1) |-> image[Unravel(i, w)]], n)
    IN  <<Frac(M_01, M_00), Frac(M_10, M_00)>>

shift_centroid(image, h, w, img_ref_peak_idx) ==
    LET img_peak_idx == centroid(image, h, w)
        rel_shift_idx == VSub(img_ref_peak_idx, img_peak_idx)
    IN  Result(Shift(image, rel_shift_idx), VNeg(rel_shift_idx), 0)

\* signal.fftconvolve(image_ref, image[::-1,::-1], 'same'), exactly: the
\* centred h x w part of the full linear convolution, which starts at
\* ((h-1) div 2, (w-1) div 2) of the (2h-1) x (2w-1) result
Corr(image_ref, image, h, w) ==
    LET sy == (h - 1) \div 2
        sx == (w - 1) \div 2
        n  == h * w
        term(q, a) ==
            LET b == <<h - 1 - (q[1] + sy - a[1]), w - 1 - (q[2] + sx - a[2])>>
            IN  IF image_ref[a] # 0 /\ b \in Pos(h, w)
                THEN image_ref[a] * image[b] ELSE 0
    IN  Grid([j \in 0..(n - 1) |->
                 SumTo([i \in 0..(n - 1) |-> term(Unravel(j, w), Unravel(i, w))],
                       n)], w, n)

\* corr /= max(corr.flatten()): an all-zero surface becomes all NaN
Normalise(corr, h, w) ==
    LET m == MaxVal(corr, h, w)
    IN  Grid([j \in 0..(h * w - 1) |-> Frac(corr[Unravel(j, w)], m)], w, h * w)

RECURSIVE ArgMaxRFrom(_, _, _, _, _)
\* a later entry wins only if it is NaN and the best is not, or, with no NaN
\* seen, if it is strictly larger
ArgMaxRFrom(c, w, n, i, best) ==
    IF i = n THEN best
    ELSE IF ~IsNaN(c[Unravel(best, w)])
            /\ (IsNaN(c[Unravel(i, w)])
                \/ RGt(c[Unravel(i, w)], c[Unravel(best, w)]))
         THEN ArgMaxRFrom(c, w, n, i + 1, i)
         ELSE ArgMaxRFrom(c, w, n, i + 1, best)

\* numpy.argmax of the normalised surface: a NaN counts as the maximum,
\* so the first NaN wins; otherwise the first largest entry
ArgMaxR(c, h, w) == Unravel(ArgMaxRFrom(c, w, h * w, 1, 0), w)

\* integer-argmax branch (subPixelShift false); height/2 is a true division
shift_xcorr(image, h, w, image_ref) ==
    LET corr == Normalise(Corr(image_ref, image, h, w), h, w)
        idx == ArgMaxR(corr, h, w)
        rel_shift_idx == <<RSub(RInt(idx[1]), Frac(h, 2)),
                           RSub(RInt(idx[2]), Frac(w, 2))>>
    IN  Result(Shift(image, rel_shift_idx), VNeg(rel_shift_idx), 0)

\* ---------------------------------------------------------- selection
\* variant: the order of argsort is not reversed
ArgSortAsc(vals) ==
    LET n == Len(vals)
        before(j, i) == vals[j] < vals[i] \/ (vals[j] = vals[i] /\ j < i)
        place(i) == Cardinality({j \in 1..n : before(j, i)}) + 1
    IN  [p \in 1..n |-> CHOOSE i \in 1..n : place(i) = p]

\* numpy.argsort(vals)[::-1] as 1-based indices.  For the short arrays here
\* numpy's default sort is an insertion sort, hence stable; reversing puts
\* the larger value first and, among equal values, the later frame first.
ArgSortDesc(vals) ==
    LET n == Len(vals)
        before(j, i) == vals[j] > vals[i] \/ (vals[j] = vals[i] /\ j > i)
        place(i) == Cardinality({j \in 1..n : before(j, i)}) + 1
    IN  [p \in 1..n |-> CHOOSE i \in 1..n : place(i) = p]

\* numpy.ceil(fsr * N) for fsr = num/den
CeilMul(fsr, n) == (fsr[1] * n + fsr[2] - 1) \div fsr[2]

\* a[idx[:n]]: the slice is clamped to the length of idx
Take(a, idx, n) == [p \in 1..Min(n, Len(idx)) |-> a[idx[p]]]

\* ------------------------------------------------------------ the state
VARIABLES
    dims,             \* <<height, width>> of every frame of the run
    in_ndim,          \* number of dimensions of the array passed as images
    in_images,        \* the frames passed as images
    in_ref,           \* image_ref as passed: <<>> or <<frame>>
    in_N,             \* N as passed (0: None)
    li_method, fsr, bid_area,
    truth,            \* addTipTilt's input frame
    sigma_tt_px,      \* standard deviation as passed: <<>> or <<s>>
    N_tt,             \* number of displaced copies asked for
    tt_supplied,      \* tt_idxs as passed: <<>> or <<content at the call>>
    tt_idxs,          \* the caller's shift array, as it is now
    draws,            \* the pairs np.random.randn() gave, one per frame
    tt_out,           \* addTipTilt's outcome: <<>> or <<record>>
    report,           \* alignmentError's result: <<>> or <<record>>
    pc,               \* where the caller / luckyImaging stands
    mode,             \* mode of the current luckyImaging call
    images, image_ref, N,      \* after _li_error_check
    img_ref_peak_idx,          \* bound into shift_fun
    k,                         \* serial loop counter
    tasks, results,            \* pool.map: task states and result slots
    images_shifted, rel_shift_idxs, peak_pixel_vals,
    image_stacked,             \* <<>> or <<stack>>
    err,                       \* exception raised by the current call
    calls,                     \* calls[m][i]: invocations of shift_fun on
                               \* frame i on behalf of the call in mode m
    outs                       \* per mode: <<>> or <<what the call gave>>

inputs == <<dims, in_ndim, in_images, in_ref, in_N, li_method, fsr, bid_area,
            truth, sigma_tt_px, N_tt, tt_supplied, tt_idxs, draws, tt_out>>
work == <<images, image_ref, N, img_ref_peak_idx, k, tasks, results,
          images_shifted, rel_shift_idxs, peak_pixel_vals, image_stacked,
          err, calls>>
vars == <<inputs, report, pc, mode, work, outs>>

MethodNames == {"xcorr", "peak_pixel", "centroid"}
ModeNames == {"parallel", "serial"}
H == dims[1]
W == dims[2]

\* ---------------------------------------------------- _li_error_check
\* variant: frame 0 becomes the reference and stays among the candidates
li_error_check_keep_first(a_images, a_ndim, a_ref, a_N) ==
    LET fail == [exc |-> "UserWarning", images |-> <<>>, image_ref |-> <<>>,
                 N |-> 0]
        len == Len(a_images)
    IN  IF a_ndim = 3
        THEN IF a_N # 0 /\ a_N > len
             THEN fail
             ELSE IF a_ref = <<>>
                  THEN [exc |-> "", images |-> a_images,
                        image_ref |-> Head(a_images),
                        N |-> IF a_N = 0 THEN len ELSE a_N]
                  ELSE [exc |-> "", images |-> a_images,
                        image_ref |-> a_ref[1],
                        N |-> IF a_N = 0 THEN len ELSE a_N]
        ELSE fail

\* lines 503-542: a 3-D sequence passes unless N exceeds its length; without
\* a reference, frame 0 becomes the reference and the rest the candidates
li_error_check(a_images, a_ndim, a_ref, a_N) ==
    LET fail == [exc |-> "UserWarning", images |-> <<>>, image_ref |-> <<>>,
                 N |-> 0]
        len == Len(a_images)
    IN  IF a_ndim = 3
        THEN IF a_N # 0 /\ a_N > len
             THEN fail
             ELSE IF a_ref = <<>>
                  THEN [exc |-> "", images |-> Tail(a_images),
                        image_ref |-> Head(a_images),
                        N |-> IF a_N = 0 THEN len - 1 ELSE a_N]
                  ELSE [exc |-> "", images |-> a_images,
                        image_ref |-> a_ref[1],
                        N |-> IF a_N = 0 THEN len ELSE a_N]
        ELSE fail

\* the reference coordinates bound into shift_fun (lines 398-413)
RefPeak(method, ref, h, w, bid) ==
    IF method = "peak_pixel"
    THEN IF bid # <<>>
         THEN VInt(ArgMax(rotateAndCrop(ref, bid), CropShape(bid)[1],
                          CropShape(bid)[2]))
         ELSE VInt(ArgMax(ref, h, w))
    ELSE IF method = "centroid" THEN centroid(ref, h, w)
    ELSE VInt(<<0, 0>>)

\* shift_fun: the per-frame function built by partial application
shift_fun(image) ==
    IF li_method = "xcorr" THEN shift_xcorr(image, H, W, image_ref)
    ELSE IF li_method = "peak_pixel"
         THEN shift_pp(image, H, W, img_ref_peak_idx, bid_area)
         ELSE shift_centroid(image, H, W, img_ref_peak_idx)

Selecting == li_method = "peak_pixel" /\ fsr[1] < fsr[2]

\* the locals of a new call in mode m on n candidate frames.  The pool of
\* an earlier call is not touched: its tasks, and the shift_fun bound for
\* them, stay as they are.
Fresh(m, n) ==
    /\ k' = 0
    /\ results' = <<>>
    /\ images_shifted' = <<>>
    /\ rel_shift_idxs' = <<>>
    /\ peak_pixel_vals' = <<>>
    /\ image_stacked' = <<>>
    /\ calls' = [calls EXCEPT ![m] = [i \in 1..n |-> 0]]
    /\ UNCHANGED <<tasks, img_ref_peak_idx>>

Raise(e) == pc' = "error" /\ err' = e

\* the caller runs the same inputs through each mode in turn
CallOrder == <<"serial", "parallel", "bogus">>

\* luckyImaging is entered in mode m; line 393
Call(m) ==
    /\ pc = "idle"
    /\ \E j \in 1..Len(CallOrder) :
           /\ CallOrder[j] = m
           /\ outs[m] = <<>>
           /\ \A l \in 1..(j - 1) : outs[CallOrder[l]] # <<>>
    /\ mode' = m
    /\ LET c == li_error_check(in_images, in_ndim, in_ref, in_N)
       IN  /\ images' = c.images
           /\ image_ref' = c.image_ref
           /\ N' = c.N
           /\ Fresh(m, Len(c.images))
           /\ err' = c.exc
           /\ pc' = IF c.exc = "" THEN "checked" ELSE "error"
    /\ UNCHANGED <<inputs, report, outs>>

\* lines 398-417
SelectMethod ==
    /\ pc = "checked"
    /\ IF li_method \in MethodNames
       THEN /\ img_ref_peak_idx' = RefPeak(li_method, image_ref, H, W, bid_area)
            /\ pc' = "ready"
            /\ err' = err
       ELSE /\ Raise("UserWarning")
            /\ UNCHANGED img_ref_peak_idx
    /\ UNCHANGED <<inputs, report, mode, outs, images, image_ref, N, k, tasks,
                   results, images_shifted, rel_shift_idxs, peak_pixel_vals,
                   image_stacked, calls>>

ZeroShifted == Shift(ZeroFrame(H, W), VInt(<<0, 0>>))

\* variant: any name other than 'parallel' runs the serial loop
ModeBranchLenient(m) == IF m = "parallel" THEN "pool" ELSE "loop"

\* the branch of lines 422 / 438 / 449 taken for a mode name
ModeBranch(m) ==
    IF m = "parallel" THEN "pool" ELSE IF m = "serial" THEN "loop" ELSE "raise"

\* lines 422-428 / 438-441 / 449-451
Dispatch ==
    /\ pc = "ready"
    /\ IF ModeBranch(mode) = "pool"
       THEN /\ tasks' = [i \in 1..Len(images) |-> "queued"]
            /\ results' = [i \in 1..Len(images) |-> <<>>]
            /\ pc' = "pool"
            /\ UNCHANGED <<images_shifted, rel_shift_idxs, k, err>>
       ELSE IF ModeBranch(mode) = "loop"
       THEN /\ images_shifted' = [i \in 1..N |-> ZeroShifted]
            /\ rel_shift_idxs' = [i \in 1..N |-> VInt(<<0, 0>>)]
            /\ k' = 0
            /\ pc' = IF N = 0 THEN "stack" ELSE "loop"
            /\ UNCHANGED <<tasks, results, err>>
       ELSE /\ Raise("UserWarning")
            /\ UNCHANGED <<tasks, results, images_shifted, rel_shift_idxs, k>>
    /\ UNCHANGED <<inputs, report, mode, outs, images, image_ref, N,
                   img_ref_peak_idx, peak_pixel_vals, image_stacked, calls>>

\* variant: a result goes to the first free slot, i.e. in order of arrival
StoreByArrival(res, i, r) ==
    LET j == CHOOSE j \in DOMAIN res :
                 res[j] = <<>> /\ \A l \in 1..(j - 1) : res[l] # <<>>
    IN  [res EXCEPT ![j] = <<r>>]

\* pool.map keeps results by task index, whatever the completion order
StoreResult(res, i, r) == [res EXCEPT ![i] = <<r>>]

Running == {i \in DOMAIN tasks : tasks[i] = "running"}

\* the tasks that hold a pool thread: taken from the queue and not yet ended
Busy == {i \in DOMAIN tasks : tasks[i] \in {"taken", "running"}}

\* variant: a task that is done can be handed out a second time
RunnableTwice(i) ==
    /\ tasks[i] \in {"queued", "done"}
    /\ calls["parallel"][i] < 2

\* the task queue hands out each task once, in index order
Runnable(i) ==
    /\ tasks[i] = "queued"
    /\ \A j \in 1..(i - 1) : tasks[j] # "queued"

\* the task whose exception the map holds: the first one that failed
Failed == {i \in DOMAIN tasks : tasks[i] = "failed"}

\* a free pool thread takes the next task from the queue (chunksize 1).
\* The pool of line 427 outlives a call that raised (lines 429-430 are then
\* skipped) and is not stopped by a later call, so its threads keep taking
\* tasks until the queue is empty.
WorkerTake(i) ==
    /\ i \in DOMAIN tasks
    /\ Runnable(i)
    /\ Cardinality(Busy) < PoolSize
    /\ tasks' = [tasks EXCEPT ![i] = "taken"]
    /\ UNCHANGED <<inputs, report, pc, mode, outs, images, image_ref, N,
                   img_ref_peak_idx, k, results, images_shifted,
                   rel_shift_idxs, peak_pixel_vals, image_stacked, err,
                   calls>>

\* the thread that took task i enters shift_fun; other threads may have
\* taken and entered later tasks in between
WorkerStart(i) ==
    /\ i \in DOMAIN tasks
    /\ tasks[i] = "taken"
    /\ tasks' = [tasks EXCEPT ![i] = "running"]
    /\ calls' = [calls EXCEPT !["parallel"][i] = @ + 1]
    /\ UNCHANGED <<inputs, report, pc, mode, outs, images, image_ref, N,
                   img_ref_peak_idx, k, results, images_shifted,
                   rel_shift_idxs, peak_pixel_vals, image_stacked, err>>

\* the task on frame i ends in its worker thread.  A result goes to its
\* slot; the first exception is kept by the map for the caller; once a task
\* has failed the map is gone and whatever ends later is thrown away.
WorkerFinish(i) ==
    /\ i \in DOMAIN tasks
    /\ tasks[i] = "running"
    /\ LET r == shift_fun(images[i])
       IN  IF Failed # {}
           THEN /\ tasks' = [tasks EXCEPT ![i] = "dropped"]
                /\ UNCHANGED results
           ELSE IF r.exc = ""
           THEN /\ results' = StoreResult(results, i, r)
                /\ tasks' = [tasks EXCEPT ![i] = "done"]
           ELSE /\ tasks' = [tasks EXCEPT ![i] = "failed"]
                /\ UNCHANGED results
    /\ UNCHANGED <<inputs, report, pc, mode, outs, images, image_ref, N,
                   img_ref_peak_idx, k, images_shifted, rel_shift_idxs,
                   peak_pixel_vals, image_stacked, calls, err>>

\* variant: map returns as soon as one task is done
AnyDone(t) == \E i \in DOMAIN t : t[i] = "done"

\* pool.map blocks until every task is done
AllDone(t) == \A i \in DOMAIN t : t[i] = "done"

\* lines 428-436: the caller wakes up in map once every task is done, or
\* once a task has failed, and then raises that task's exception while the
\* other tasks go on; zip(*results)[0] fails on an empty result list, and
\* zip(*results) on a slot still None
Join ==
    /\ pc = "pool"
    /\ AllDone(tasks) \/ Failed # {}
    /\ IF Failed # {}
       THEN /\ Raise(shift_fun(images[CHOOSE i \in Failed : TRUE]).exc)
            /\ UNCHANGED <<images_shifted, rel_shift_idxs, peak_pixel_vals>>
       ELSE IF Len(results) = 0
       THEN /\ Raise("IndexError")
            /\ UNCHANGED <<images_shifted, rel_shift_idxs, peak_pixel_vals>>
       ELSE IF \E i \in DOMAIN results : results[i] = <<>>
       THEN /\ Raise("TypeError")
            /\ UNCHANGED <<images_shifted, rel_shift_idxs, peak_pixel_vals>>
       ELSE /\ images_shifted' =
                   [i \in 1..Len(results) |-> results[i][1].image_shifted]
            /\ rel_shift_idxs' = [i \in 1..Len(results) |-> results[i][1].shift]
            /\ peak_pixel_vals' =
                   IF Selecting
                   THEN [i \in 1..Len(results) |-> results[i][1].peak]
                   ELSE peak_pixel_vals
            /\ pc' = "stack"
            /\ err' = err
    /\ UNCHANGED <<inputs, report, mode, outs, images, image_ref, N,
                   img_ref_peak_idx, k, tasks, results, image_stacked, calls>>

\* lines 443-445: the first pass of the peak-pixel loop binds
\* peak_pixel_vals to zeros before images[k] is read or shift_fun is called
FirstPass(vals) ==
    IF li_method = "peak_pixel" /\ k = 0 THEN [i \in 1..N |-> 0] ELSE vals

\* one pass of the loop of lines 442-448, on Python's images[k]
SerialStep ==
    /\ pc = "loop"
    /\ IF k + 1 > Len(images)
       THEN /\ Raise("IndexError")
            /\ peak_pixel_vals' = FirstPass(peak_pixel_vals)
            /\ UNCHANGED <<images_shifted, rel_shift_idxs, k, calls>>
       ELSE LET r == shift_fun(images[k + 1])
                pv == FirstPass(peak_pixel_vals)
            IN  /\ calls' = [calls EXCEPT ![mode][k + 1] = @ + 1]
                /\ IF r.exc = ""
                   THEN /\ images_shifted' =
                               [images_shifted EXCEPT ![k + 1] = r.image_shifted]
                        /\ rel_shift_idxs' =
                               [rel_shift_idxs EXCEPT ![k + 1] = r.shift]
                        /\ peak_pixel_vals' =
                               IF li_method = "peak_pixel"
                               THEN [pv EXCEPT ![k + 1] = r.peak]
                               ELSE pv
                        /\ k' = k + 1
                        /\ pc' = IF k + 1 = N THEN "stack" ELSE "loop"
                        /\ err' = err
                   ELSE /\ Raise(r.exc)
                        /\ peak_pixel_vals' = pv
                        /\ UNCHANGED <<images_shifted, rel_shift_idxs, k>>
    /\ UNCHANGED <<inputs, report, mode, outs, images, image_ref, N,
                   img_ref_peak_idx, tasks, results, image_stacked>>

\* sorted_idx[:n] as a list of frame indices
Selected(vals, n) == Take([i \in 1..Len(vals) |-> i], ArgSortDesc(vals), n)

\* the mean of lines 461-467: the frames summed (used: their indices in
\* images_shifted) and the divisor
Stacked(ref, shifted, vals, n, selecting, ratio) ==
    IF selecting
    THEN [ref |-> ref,
          used |-> Selected(vals, CeilMul(ratio, n)),
          terms |-> Take(shifted, ArgSortDesc(vals), CeilMul(ratio, n)),
          div |-> CeilMul(ratio, n) + 1]
    ELSE [ref |-> ref,
          used |-> [i \in 1..Len(shifted) |-> i],
          terms |-> shifted,
          div |-> n + 1]

\* lines 461-469; peak_pixel_vals is unbound if the serial loop never ran:
\* line 462 then raises UnboundLocalError
Stack ==
    /\ pc = "stack"
    /\ IF Selecting /\ peak_pixel_vals = <<>>
       THEN /\ Raise("UnboundLocalError")
            /\ UNCHANGED <<image_stacked, N>>
       ELSE /\ image_stacked' = <<Stacked(image_ref, images_shifted,
                                          peak_pixel_vals, N, Selecting, fsr)>>
            /\ N' = IF Selecting THEN CeilMul(fsr, N) ELSE N
            /\ pc' = "done"
            /\ err' = err
    /\ UNCHANGED <<inputs, report, mode, outs, images, image_ref,
                   img_ref_peak_idx, k, tasks, results, images_shifted,
                   rel_shift_idxs, peak_pixel_vals, calls>>

\* the call is over: it returned (image_stacked, rel_shift_idxs) or raised
Outcome ==
    IF pc = "error"
    THEN [exc |-> err, image_stacked |-> <<>>, rel_shift_idxs |-> <<>>,
          report |-> <<>>]
    ELSE [exc |-> "", image_stacked |-> image_stacked,
          rel_shift_idxs |-> rel_shift_idxs, report |-> report]

Return ==
    /\ pc \in {"done", "error", "reported"}
    /\ outs' = [outs EXCEPT ![mode] = <<Outcome>>]
    /\ pc' = "idle"
    /\ report' = <<>>
    /\ UNCHANGED <<inputs, mode, work>>

\* ------------------------------------------------------------ addTipTilt
\* variant: shifts that are supplied are used even if sigma_tt_px is given
UseExplicitIfSupplied(sigma, tt) == sigma # <<>> /\ tt = <<>>

\* line 93: the shifts are drawn at random whenever sigma_tt_px is a number
UseRandom(sigma, tt) == sigma # <<>>

\* np.squeeze of an (n, 2) array: a single row becomes a vector
Squeeze(a) == [ndim |-> IF Len(a) = 1 THEN 1 ELSE 2, rows |-> a]

\* lines 47-110 for a single truth frame and no crop.  sigma and tt are <<>>
\* (None) or <<value>>; randn[j] is the pair of numbers the generator gives
\* for frame j.  The array of shifts is the caller's if one is supplied (a
\* fresh one otherwise) and is written in place; reading or writing row j
\* fails past its end.
addTipTilt(image, h, w, sigma, tt, n_tt, randn) ==
    IF sigma = <<>> /\ tt = <<>>
    THEN [exc |-> "UserWarning", images_tt |-> <<>>, ndim |-> 0,
          array |-> <<>>, tt_idxs |-> Squeeze(<<>>), drawn |-> <<>>]
    ELSE LET arr0 == IF tt = <<>> THEN [j \in 1..n_tt |-> <<0, 0>>]
                     ELSE tt[1]
             random == UseRandom(sigma, tt)
             done == Min(n_tt, Len(arr0))
             by(j) == IF random
                      THEN <<randn[j][1] * sigma[1], randn[j][2] * sigma[1]>>
                      ELSE arr0[j]
             arr == [j \in 1..Len(arr0) |->
                        IF random /\ j <= done THEN by(j) ELSE arr0[j]]
             drawn == IF random
                      THEN [j \in 1..Min(n_tt, Len(arr0) + 1) |-> randn[j]]
                      ELSE <<>>
         IN  IF n_tt > Len(arr0)
             THEN [exc |-> "IndexError", images_tt |-> <<>>, ndim |-> 0,
                   array |-> arr, tt_idxs |-> Squeeze(<<>>), drawn |-> drawn]
             ELSE [exc |-> "",
                   images_tt |-> [j \in 1..n_tt |->
                                     Translate(image, h, w, by(j))],
                   ndim |-> IF n_tt = 1 THEN 2 ELSE 3,
                   array |-> arr,
                   tt_idxs |-> Squeeze(arr),
                   drawn |-> drawn]

RandnSet == {<<0, 1>>, <<1, -1>>}

AddTipTilt ==
    /\ pc = "tt"
    /\ \E randn \in [1..N_tt -> RandnSet] :
           LET a == addTipTilt(truth, H, W, sigma_tt_px,
                               IF tt_supplied = <<>> THEN <<>>
                               ELSE <<tt_idxs>>, N_tt, randn)
           IN  /\ in_images' = a.images_tt
               /\ in_ndim' = a.ndim
               /\ tt_idxs' = IF tt_supplied = <<>> THEN tt_idxs ELSE a.array
               /\ draws' = a.drawn
               /\ tt_out' = <<[exc |-> a.exc, tt_idxs |-> a.tt_idxs]>>
               /\ pc' = IF a.exc = "" THEN "idle" ELSE "tt_error"
    /\ UNCHANGED <<dims, in_ref, in_N, li_method, fsr, bid_area, truth,
                   sigma_tt_px, N_tt, tt_supplied, report, mode, work, outs>>

\* -------------------------------------------------------- alignmentError
thresh == <<1, 10>>

\* variant: the distance along the rows only
Dist2RowsOnly(u, v) ==
    LET d == VSub(u, v) IN RMul(d[1], d[1])

\* squared Euclidean distance of two shift vectors
Dist2(u, v) ==
    LET d == VSub(u, v) IN RAdd(RMul(d[1], d[1]), RMul(d[2], d[2]))

RECURSIVE SquarePart(_, _)
\* the largest c' <= c whose square divides m
SquarePart(m, c) ==
    IF c <= 1 THEN 1
    ELSE IF m % (c * c) = 0 THEN c ELSE SquarePart(m, c - 1)

\* np.sqrt of a fraction x >= 0, exactly: the pair <<q, r>> stands for
\* q * sqrt(r) with r a square-free integer; sqrt(n/d) = sqrt(n * d) / d
Sqrt(x) ==
    IF IsNaN(x) THEN <<NaN, 1>>
    ELSE IF x[1] = 0 THEN <<RInt(0), 1>>
    ELSE LET m == x[1] * x[2]
             c == SquarePart(m, m)
         IN  <<Frac(c, x[2]), m \div (c * c)>>

\* (q * sqrt(r)) squared
SurdSq(e) == RMul(RMul(e[1], e[1]), RInt(e[2]))

\* errs[k] > thresh, both sides being non-negative
Exceeds(e) == RGt(SurdSq(e), RMul(thresh, thresh))

RECURSIVE SumRad(_, _, _)
\* the rational coefficient of sqrt(r) in errs[1] + ... + errs[i]
SumRad(errs, r, i) ==
    IF i = 0 THEN RInt(0)
    ELSE RAdd(SumRad(errs, r, i - 1),
              IF errs[i][2] = r \/ IsNaN(errs[i][1]) THEN errs[i][1]
              ELSE RInt(0))

\* np.mean(errs), exactly: the coefficient of sqrt(r) for each square-free r
\* that occurs in errs; the mean of an empty array is NaN
Mean(errs) ==
    IF Len(errs) = 0 THEN [r \in {1} |-> NaN]
    ELSE [r \in {errs[i][2] : i \in 1..Len(errs)} |->
              RMul(SumRad(errs, r, Len(errs)), Frac(1, Len(errs)))]

\* lines 479-500: the per-frame errors, the count of those above thresh and
\* their mean; in_idxs[k] fails for an out_idxs shorter than in_idxs
alignmentError(in_idxs, out_idxs) ==
    LET n == Len(in_idxs)
    IN  IF n > Len(out_idxs)
        THEN [exc |-> "IndexError", n_errs |-> 0, errs |-> <<>>,
              avg_err |-> <<>>]
        ELSE LET errs == [i \in 1..n |->
                              Sqrt(Dist2(VInt(in_idxs[i]), out_idxs[i]))]
             IN  [exc |-> "",
                  n_errs |-> Cardinality({i \in 1..n : Exceeds(errs[i])}),
                  errs |-> errs,
                  avg_err |-> Mean(errs)]

\* the caller compares the injected shifts with the returned ones
AlignmentError ==
    /\ pc = "done"
    /\ report' = <<alignmentError(tt_idxs, rel_shift_idxs)>>
    /\ pc' = "reported"
    /\ UNCHANGED <<inputs, mode, work, outs>>

\* ------------------------------------------------------------ the inputs
AllModes == {CallOrder[j] : j \in 1..Len(CallOrder)}

FrameSet(h, w) == {PointSource(h, w, <<0, 0>>, 1),
                   PointSource(h, w, <<1, 1>>, 2),
                   ZeroFrame(h, w)}

SeqsUpTo(S, n) == UNION {[1..m -> S] : m \in 1..n}

WorkInit ==
    /\ images = <<>>
    /\ image_ref = <<>>
    /\ N = 0
    /\ img_ref_peak_idx = VInt(<<0, 0>>)
    /\ k = 0
    /\ tasks = <<>>
    /\ results = <<>>
    /\ images_shifted = <<>>
    /\ rel_shift_idxs = <<>>
    /\ peak_pixel_vals = <<>>
    /\ image_stacked = <<>>
    /\ err = ""
    /\ calls = [m \in AllModes |-> <<>>]
    /\ report = <<>>
    /\ mode = "serial"
    /\ outs = [m \in AllModes |-> <<>>]

\* luckyImaging on frame sequences given directly
Init ==
    /\ dims \in {<<s, s>> : s \in Sides}
    /\ in_ndim \in {2, 3}
    /\ in_images \in SeqsUpTo(FrameSet(H, W), IF in_ndim = 2 THEN 1 ELSE MaxFrames)
    /\ in_ref \in {<<>>, <<PointSource(H, W, <<0, 0>>, 2)>>}
    /\ in_N \in {n \in 0..(MaxFrames + 1) : Abs(n - Len(in_images)) <= 1} \cup {0}
    /\ li_method \in MethodNames \cup {"bogus"}
    /\ fsr \in IF li_method = "peak_pixel" THEN {<<1, 1>>, <<1, 2>>} ELSE {<<1, 1>>}
    /\ bid_area \in IF li_method = "peak_pixel" /\ fsr = <<1, 1>>
                    THEN {<<>>, <<0, 0, W - 1, H - 1>>} ELSE {<<>>}
    /\ truth = <<>>
    /\ sigma_tt_px = <<>>
    /\ N_tt = 0
    /\ tt_supplied = <<>>
    /\ tt_idxs = <<>>
    /\ draws = <<>>
    /\ tt_out = <<>>
    /\ pc = "idle"
    /\ WorkInit

Next ==
    \/ \E m \in AllModes : Call(m)
    \/ SelectMethod
    \/ Dispatch
    \/ \E i \in 1..MaxFrames : WorkerTake(i)
    \/ \E i \in 1..MaxFrames : WorkerStart(i)
    \/ \E i \in 1..MaxFrames : WorkerFinish(i)
    \/ Join
    \/ SerialStep
    \/ Stack
    \/ Return

Spec == Init /\ [][Next]_vars

\* the thread that runs luckyImaging is never held up by anything but the
\* pool: once map can return it does, and the statements after it follow
SpecFair == Spec /\ WF_vars(Join) /\ WF_vars(Stack) /\ WF_vars(Return)

\* the round trip: a truth frame with one point source is displaced by
\* explicit shifts that keep the source inside the frame, registered against
\* the truth frame, and the shifts found are compared with the injected ones
TTSet == {0, 1} \X {0, 1}

InitRT ==
    /\ dims \in Sides \X Sides
    /\ truth = PointSource(H, W, <<0, 0>>, 1)
    /\ tt_idxs \in SeqsUpTo(TTSet, MaxFrames)
    /\ tt_supplied = <<tt_idxs>>
    /\ sigma_tt_px = <<>>
    /\ N_tt = Len(tt_idxs)
    /\ draws = <<>>
    /\ tt_out = <<>>
    /\ in_ndim = 0
    /\ in_images = <<>>
    /\ in_ref = <<truth>>
    /\ in_N = 0
    /\ li_method \in MethodNames
    /\ fsr = <<1, 1>>
    /\ bid_area = <<>>
    /\ pc = "tt"
    /\ WorkInit

NextRT ==
    \/ AddTipTilt
    \/ \E m \in ModeNames : Call(m)
    \/ SelectMethod
    \/ Dispatch
    \/ \E i \in 1..MaxFrames : WorkerTake(i)
    \/ \E i \in 1..MaxFrames : WorkerStart(i)
    \/ \E i \in 1..MaxFrames : WorkerFinish(i)
    \/ Join
    \/ SerialStep
    \/ Stack
    \/ AlignmentError
    \/ Return

SpecRT == InitRT /\ [][NextRT]_vars

\* addTipTilt alone, on a truth frame with one point source: with or without
\* a standard deviation, with or without an array of shifts of any length
SigmaSet == {1, 2}

InitTT ==
    /\ dims \in {<<s, s>> : s \in Sides}
    /\ truth = PointSource(H, W, <<1, 1>>, 1)
    /\ sigma_tt_px \in {<<>>} \cup {<<s>> : s \in SigmaSet}
    /\ tt_supplied \in {<<>>} \cup {<<t>> : t \in SeqsUpTo(TTSet, MaxFrames)}
    /\ tt_idxs = IF tt_supplied = <<>> THEN <<>> ELSE tt_supplied[1]
    /\ N_tt \in 1..MaxFrames
    /\ draws = <<>>
    /\ tt_out = <<>>
    /\ in_ndim = 0
    /\ in_images = <<>>
    /\ in_ref = <<truth>>
    /\ in_N = 0
    /\ li_method = "peak_pixel"
    /\ fsr = <<1, 1>>
    /\ bid_area = <<>>
    /\ pc = "tt"
    /\ WorkInit

NextTT == AddTipTilt

SpecTT == InitTT /\ [][NextTT]_vars

\* ==================================================================
\* Properties
\* ==================================================================
Returned(m) == outs[m] # <<>> /\ outs[m][1].exc = ""

\* C1: for the same images, reference, method and parameters (any requested
\* frame count N), the 'parallel' and the 'serial' call return equal stacked
\* images and equal shift-vector arrays.
C1_ModesAgree ==
    (Returned("serial") /\ Returned("parallel")) =>
        /\ outs["serial"][1].image_stacked = outs["parallel"][1].image_stacked
        /\ outs["serial"][1].rel_shift_idxs = outs["parallel"][1].rel_shift_idxs

\* C2: in parallel mode, whatever the order in which the tasks end, entry i
\* of the shifted-frame array and of the shift-vector array is the
\* registration result of candidate frame i.
C2_ResultsByIndex ==
    (mode = "parallel" /\ pc \in {"pool", "stack", "done"}) =>
        /\ pc = "pool" =>
               \A i \in DOMAIN results :
                   results[i] # <<>> => results[i][1] = shift_fun(images[i])
        /\ pc \in {"stack", "done"} =>
               /\ Len(images_shifted) = Len(images)
               /\ Len(rel_shift_idxs) = Len(images)
               /\ \A i \in 1..Len(images) :
                      /\ images_shifted[i] = shift_fun(images[i]).image_shifted
                      /\ rel_shift_idxs[i] = shift_fun(images[i]).shift

\* the second task has ended before the first, with a different result
C2_Witness ==
    /\ pc = "pool"
    /\ Len(results) >= 2
    /\ results[1] = <<>>
    /\ results[2] # <<>>
    /\ tasks[1] = "running"
    /\ shift_fun(images[1]) # results[2][1]

BadConfig(m) == li_method \notin MethodNames \/ m \notin ModeNames

\* C3: with an unsupported method name or mode name the call raises a
\* configuration error before any frame is registered: shift_fun is never
\* called, no task or loop is started, nothing is stacked or returned.
C3_ConfigErrorFirst ==
    /\ (pc # "idle" /\ BadConfig(mode)) =>
           /\ \A i \in DOMAIN calls[mode] : calls[mode][i] = 0
           /\ pc \in {"checked", "ready", "error"}
           /\ pc = "error" => err = "UserWarning"
           /\ mode \in ModeNames => tasks = <<>>
           /\ image_stacked = <<>>
    /\ \A m \in AllModes :
           (outs[m] # <<>> /\ BadConfig(m)) =>
               /\ outs[m][1].exc = "UserWarning"
               /\ outs[m][1].image_stacked = <<>>
               /\ outs[m][1].rel_shift_idxs = <<>>

\* a supported method on frames that passed the input check, unsupported mode
C3_Witness ==
    /\ pc = "error"
    /\ mode \notin ModeNames
    /\ li_method \in MethodNames
    /\ Len(images) >= 2
    /\ err = "UserWarning"

\* the number of frames there are to register
Candidates == IF in_ref = <<>> THEN Len(in_images) - 1 ELSE Len(in_images)

\* C4: the stacked image is (reference + sum of the shifted frames summed)
\* divided by (number of frames summed + 1), in both modes, for any
\* requested frame count N that the frames supplied can serve.
C4_MeanOfSummed ==
    (pc = "done" /\ in_N <= Candidates) =>
        /\ image_stacked[1].ref = image_ref
        /\ image_stacked[1].div = Len(image_stacked[1].terms) + 1
        /\ ~Selecting => image_stacked[1].terms = images_shifted

\* the frame count the call works with: the one requested, else the default
FrameCount == li_error_check(in_images, in_ndim, in_ref, in_N).N

\* C5: with the peak-pixel method and a selection fraction f < 1 over N
\* candidate frames, the stack never combines more than ceil(f * N)
\* non-reference frames, in either mode.
C5_SelectionBound ==
    (pc = "done" /\ Selecting) =>
        Len(image_stacked[1].terms) <= CeilMul(fsr, Candidates)

UsedSet == {image_stacked[1].used[p] : p \in DOMAIN image_stacked[1].used}
PeakOf(i) == MaxVal(images[i], H, W)

\* C6: with the peak-pixel method and a selection fraction < 1, the frames
\* stacked are the top-ranked ones by peak intensity: they are taken in
\* descending order of peak, and every stacked frame has a peak at least
\* that of every frame left out.
C6_TopRanked ==
    (pc = "done" /\ Selecting) =>
        LET st == image_stacked[1]
        IN  /\ \A p \in DOMAIN st.terms : st.terms[p] = images_shifted[st.used[p]]
            /\ \A p, q \in DOMAIN st.used :
                   p < q => /\ st.used[p] # st.used[q]
                            /\ PeakOf(st.used[p]) >= PeakOf(st.used[q])
            /\ \A i \in UsedSet : \A j \in (1..Len(images_shifted)) \ UsedSet :
                   PeakOf(i) >= PeakOf(j)

\* a frame is left out whose peak is lower than that of a later, stacked one
C6_Witness ==
    /\ pc = "done"
    /\ Selecting
    /\ \E i \in UsedSet : \E j \in (1..Len(images_shifted)) \ UsedSet :
           j < i /\ PeakOf(i) > PeakOf(j)

\* reference position minus candidate position, for the position methods
RawDisplacement(image) ==
    IF li_method = "peak_pixel"
    THEN VSub(VInt(ArgMax(image_ref, H, W)), VInt(ArgMax(image, H, W)))
    ELSE VSub(centroid(image_ref, H, W), centroid(image, H, W))

\* C7: for each method the shift vector returned for a frame is the exact
\* component-wise negation of the displacement that was applied to that
\* frame to make the returned shifted frame.
C7_ReturnedIsNegation ==
    pc \in {"stack", "done"} =>
        \A i \in DOMAIN rel_shift_idxs :
            /\ images_shifted[i].src = images[i]
            /\ rel_shift_idxs[i] = VNeg(images_shifted[i].by)
            /\ li_method # "xcorr" =>
                   images_shifted[i].by = RawDisplacement(images[i])

\* a frame was registered with a displacement that is not zero
C7_Witness ==
    /\ pc = "done"
    /\ li_method = "peak_pixel"
    /\ \E i \in DOMAIN rel_shift_idxs :
           /\ ~IsNaN(rel_shift_idxs[i][1])
           /\ rel_shift_idxs[i][1][1] > 0

\* the peak of a frame inside the sub-window bid_area
PeakIn(image) ==
    VInt(ArgMax(rotateAndCrop(image, bid_area), CropShape(bid_area)[1],
                CropShape(bid_area)[2]))

\* C8: peak-pixel registration with a sub-window (bid_area) searches the
\* candidate's peak inside that sub-window of the candidate and returns the
\* shift vector: the negation of (reference peak - candidate peak).
C8_SubWindowSearch ==
    \A m \in ModeNames :
        (/\ outs[m] # <<>>
         /\ li_method = "peak_pixel"
         /\ bid_area # <<>>
         /\ in_ndim = 3
         /\ Candidates >= 1
         /\ in_N <= Candidates) =>
            /\ outs[m][1].exc = ""
            /\ \A i \in DOMAIN outs[m][1].rel_shift_idxs :
                   outs[m][1].rel_shift_idxs[i] =
                       VNeg(VSub(PeakIn(image_ref), PeakIn(images[i])))

\* C9: a noiseless truth frame with one point source, displaced by known
\* integer shifts that keep the source in the frame and registered against
\* the truth frame by peak pixel or cross-correlation (integer argmax), gives
\* back every shift within 0.1: alignmentError counts no misaligned frame.
C9_RoundTrip ==
    (pc = "reported" /\ li_method \in {"peak_pixel", "xcorr"}) =>
        /\ report[1].exc = ""
        /\ report[1].n_errs = 0

\* C10: a requested frame count N above the number of frames there are to
\* register makes the call raise at once, before any frame is processed, in
\* both modes, also when frame 0 serves as the reference.
C10_CountChecked ==
    (in_ndim = 3 /\ in_N > Candidates) =>
        /\ pc \in {"idle", "error"}
        /\ \A m \in AllModes : \A i \in DOMAIN calls[m] : calls[m][i] = 0
        /\ \A m \in AllModes :
               outs[m] # <<>> => outs[m][1].exc = "UserWarning"

\* C11: a sequence that holds one frame only is rejected by the input check
\* of luckyImaging whatever its form: a single 2-D frame and a 3-D sequence
\* of length 1 without a reference both end in the check's error, and no
\* stacked image comes back.
C11_SingleFrameRejected ==
    (in_ndim = 2 \/ (in_ref = <<>> /\ Len(in_images) = 1)) =>
        /\ pc \in {"idle", "error"}
        /\ pc = "error" => err = "UserWarning"
        /\ image_stacked = <<>>
        /\ \A m \in AllModes :
               outs[m] # <<>> => /\ outs[m][1].exc = "UserWarning"
                                 /\ outs[m][1].image_stacked = <<>>

\* C12: without a reference and without a requested count, frame 0 of the L
\* frames is the reference and is not registered: the call gives L - 1 shift
\* vectors, entry k being the shift of original frame k + 1 against frame 0,
\* in the original order, and the stack holds the reference once, beside
\* shifted frames that all come from frames 1 .. L - 1.
C12_FirstFrameIsReference ==
    (pc = "done" /\ in_ref = <<>> /\ in_N = 0) =>
        LET st == image_stacked[1]
        IN  /\ image_ref = in_images[1]
            /\ Len(rel_shift_idxs) = Len(in_images) - 1
            /\ Len(images_shifted) = Len(in_images) - 1
            /\ \A j \in DOMAIN rel_shift_idxs :
                   /\ rel_shift_idxs[j] = shift_fun(in_images[j + 1]).shift
                   /\ images_shifted[j].src = in_images[j + 1]
            /\ st.ref = in_images[1]
            /\ st.div = Len(st.terms) + 1
            /\ \A p \in DOMAIN st.terms :
                   /\ st.used[p] \in 1..(Len(in_images) - 1)
                   /\ st.terms[p].src = in_images[st.used[p] + 1]
            /\ \A p, q \in DOMAIN st.used : p # q => st.used[p] # st.used[q]

\* three frames, the two candidates registered in parallel with unlike shifts
C12_Witness ==
    /\ pc = "done"
    /\ mode = "parallel"
    /\ in_ref = <<>>
    /\ in_N = 0
    /\ Len(in_images) = 3
    /\ rel_shift_idxs[1] # rel_shift_idxs[2]

\* the squared distance between injected shift i and returned shift i
SqDist(i) ==
    LET inj == VInt(tt_idxs[i])
        out == rel_shift_idxs[i]
        dr == RSub(inj[1], out[1])
        dc == RSub(inj[2], out[2])
    IN  RAdd(RMul(dr, dr), RMul(dc, dc))

\* C13: for two index-aligned arrays of N shift vectors alignmentError gives
\* the per-frame array whose entry k is the Euclidean distance between the
\* two k-th vectors, the number of frames whose distance is strictly above
\* 0.1, and the mean of the distances; for equal arrays the count is 0,
\* every entry is 0 and the mean is 0.
C13_AlignmentReport ==
    (pc = "reported" /\ report[1].exc = "") =>
        LET rep == report[1]
            n == Len(tt_idxs)
        IN  /\ Len(rep.errs) = n
            /\ \A i \in 1..n :
                   /\ SurdSq(rep.errs[i]) = SqDist(i)
                   /\ rep.errs[i][1][1] >= 0
            /\ rep.n_errs =
                   Cardinality({i \in 1..n : RGt(SqDist(i), <<1, 100>>)})
            /\ DOMAIN rep.avg_err = {rep.errs[i][2] : i \in 1..n}
            /\ \A r \in DOMAIN rep.avg_err :
                   RMul(rep.avg_err[r], RInt(n)) = SumRad(rep.errs, r, n)
            /\ (\A i \in 1..n : rel_shift_idxs[i] = VInt(tt_idxs[i])) =>
                   /\ rep.n_errs = 0
                   /\ \A i \in 1..n : rep.errs[i] = <<RInt(0), 1>>
                   /\ \A r \in DOMAIN rep.avg_err : rep.avg_err[r] = RInt(0)

\* three frames, each registered half a pixel off along both axes: every
\* distance is sqrt(2) / 2, all three are counted, the mean is sqrt(2) / 2
C13_Witness ==
    /\ pc = "reported"
    /\ report[1].exc = ""
    /\ Len(tt_idxs) = 3
    /\ tt_idxs[1] # tt_idxs[2]
    /\ report[1].n_errs = 3
    /\ report[1].errs[1] = <<Frac(1, 2), 2>>
    /\ report[1].avg_err[2] = Frac(1, 2)

\* the frame has total intensity zero (pixels are never negative)
ZeroTotal(image) == \A q \in Pos(H, W) : image[q] = 0

\* the registration of the frame meets a fatal error: an exception in
\* shift_fun, or the division by a total intensity of zero in the centroid
FatalFrame(image) ==
    \/ shift_fun(image).exc # ""
    \/ li_method = "centroid" /\ ZeroTotal(image)

\* C14: a fatal error in the registration of any single frame (such as the
\* division by zero for a frame of total intensity zero in the centroid
\* method) is not isolated: it aborts the whole call, in both modes, and
\* neither a stacked image nor a shift array comes back.
C14_FrameErrorAborts ==
    /\ pc \in {"stack", "done"} =>
           \A i \in DOMAIN calls[mode] :
               calls[mode][i] > 0 => ~FatalFrame(images[i])
    /\ \A m \in ModeNames :
           (outs[m] # <<>> /\ outs[m][1].exc # "") =>
               /\ outs[m][1].image_stacked = <<>>
               /\ outs[m][1].rel_shift_idxs = <<>>

\* the largest value of the correlation surface of the frame is zero
ZeroCorrelation(image) ==
    MaxVal(Corr(image_ref, image, H, W), H, W) = 0

\* C15: cross-correlation registration guards the correlation surface whose
\* maximum is zero before it normalises: the division is not executed and
\* the call ends in an explicit failure, never with a shift taken from the
\* undefined surface.
C15_ZeroCorrelationGuarded ==
    (pc \in {"stack", "done"} /\ li_method = "xcorr") =>
        \A i \in DOMAIN calls[mode] :
            calls[mode][i] > 0 => ~ZeroCorrelation(images[i])

\* the call raises the exception with which one of its tasks has ended
TaskRaised ==
    /\ pc' = "error"
    /\ err' # ""
    /\ \E i \in DOMAIN tasks :
           tasks[i] = "failed" /\ shift_fun(images[i]).exc = err'

\* every task that was dispatched has ended with its result
TasksDone == \A i \in DOMAIN tasks : tasks[i] = "done" /\ results[i] # <<>>

\* C16: the coordinator of the parallel mode is a barrier: luckyImaging does
\* not start to extract results, to stack or to return before every task it
\* dispatched is done (it leaves the pool earlier only by the exception of a
\* task), and once all its tasks are done it does return its result.
C16_Barrier ==
    /\ [](mode = "parallel" /\ pc \in {"stack", "done"} => TasksDone)
    /\ [][(mode = "parallel" /\ pc = "pool" /\ pc' # "pool") =>
              (TasksDone \/ TaskRaised)]_vars
    /\ (mode = "parallel" /\ pc = "pool" /\ Len(tasks) > 0 /\ TasksDone)
           ~> Returned("parallel")

\* the call came back from three tasks, all done
C16_Witness ==
    /\ Returned("parallel")
    /\ mode = "parallel"
    /\ pc = "idle"
    /\ Len(tasks) = 3
    /\ TasksDone
    /\ Len(outs["parallel"][1].rel_shift_idxs) = 3

\* C17: in an invocation that completes, every frame there is to register
\* is passed to the registration function exactly once, in either mode: no
\* frame is registered twice and none of them is skipped.
C17_EachFrameOnce ==
    /\ \A m \in AllModes : \A i \in DOMAIN calls[m] : calls[m][i] <= 1
    /\ pc = "done" =>
           \A i \in DOMAIN calls[mode] :
               i <= FrameCount => calls[mode][i] = 1

\* three frames registered by the pool, each once
C17_Witness ==
    /\ pc = "done"
    /\ mode = "parallel"
    /\ Len(calls["parallel"]) = 3
    /\ FrameCount = 3
    /\ \A i \in 1..3 : calls["parallel"][i] = 1

\* the displacement of frame j when the shifts are drawn at random
DrawnShift(j) == <<draws[j][1] * sigma_tt_px[1], draws[j][2] * sigma_tt_px[1]>>

\* C18: addTipTilt uses the shifts the caller supplies only when no standard
\* deviation is given: frame j is then the truth frame displaced by exactly
\* tt_idxs[j], the shift array returned equals the one supplied and the
\* caller's array is left as it was.  With both a standard deviation and
\* shifts supplied the standard deviation wins: every frame is displaced by
\* a random draw, and the caller's array is overwritten in place with the
\* shifts drawn.
C18_SigmaTakesPrecedence ==
    /\ (pc = "idle" /\ sigma_tt_px = <<>>) =>
           /\ tt_supplied # <<>>
           /\ draws = <<>>
           /\ Len(in_images) = N_tt
           /\ \A j \in 1..N_tt :
                  in_images[j] = Translate(truth, H, W, tt_supplied[1][j])
           /\ tt_out[1].tt_idxs.rows = tt_supplied[1]
           /\ tt_idxs = tt_supplied[1]
    /\ (pc = "idle" /\ sigma_tt_px # <<>> /\ tt_supplied # <<>>) =>
           /\ Len(draws) = N_tt
           /\ Len(in_images) = N_tt
           /\ \A j \in 1..N_tt :
                  /\ in_images[j] = Translate(truth, H, W, DrawnShift(j))
                  /\ tt_idxs[j] = DrawnShift(j)
           /\ \A j \in (N_tt + 1)..Len(tt_idxs) :
                  tt_idxs[j] = tt_supplied[1][j]
           /\ tt_out[1].tt_idxs.rows = tt_idxs

\* both were supplied: two frames displaced by unlike draws that differ
\* from the shifts supplied, which are gone from the caller's array
C18_Witness ==
    /\ pc = "idle"
    /\ sigma_tt_px # <<>>
    /\ tt_supplied # <<>>
    /\ N_tt = 2
    /\ Len(tt_idxs) = 2
    /\ draws[1] # draws[2]
    /\ tt_idxs[1] # tt_supplied[1][1]
    /\ tt_idxs[2] # tt_supplied[1][2]
    /\ in_images[1] # Translate(truth, H, W, tt_supplied[1][1])

====
